---- MODULE Spec2Model ----
(***************************************************************************)
(* A model of torch/csrc/jit/import_source.cpp: the sugared values that    *)
(* resolve `self.field`, `ops.ns`, `CONSTANTS.cN`, the SourceImporter that *)
(* parses the version header and builds the environment, and the two       *)
(* drivers import_methods and import_libs.                                 *)
(***************************************************************************)
EXTENDS Integers, Sequences, FiniteSets, TLC

VARIABLES
  pc,            \* position of the running call
  \* ---- ConstantTableValue::attr ----
  constants_,    \* ConstantTableValue::constants_ (the borrowed pool)
  cfield,        \* the field handed to ConstantTableValue::attr
  graph,         \* constants inserted into m.graph(), in order
  cresult,       \* what ConstantTableValue::attr returned or threw
  \* ---- ModuleAccessorValue::attr ----
  modules,       \* the module tree: module id -> module contents
  accessors,     \* module ids for which a ModuleAccessorValue exists
  member_inputs, \* slots interned into the method being compiled
  nlookups,      \* number of attr calls made in this method body
  aresult,       \* the last attr call: accessor, field, returned value
  \* ---- SourceImporter, import_methods, import_libs ----
  mode,          \* the entry point that was called
  src,           \* the source unit: header tokens and parsed units
  pos,           \* Parser cursor: number of units consumed after the header
  version,       \* the version parseVersionNumber returned
  env_,          \* SourceImporter::env_
  definitions,   \* the local vector `definitions`
  resolvers,     \* the local vector `resolvers`
  heap,          \* live modules: module id -> methods attached to it
  registry,      \* class types created by ClassType::create
  calls,         \* the calls made to defineMethodsInModule, in order
  error,         \* the error that left the call, if any
  before,        \* the heap when the call started
  \* ---- resolution through the environment ----
  cur,           \* the sugared value the compiler holds
  chain          \* the dotted chain resolved so far

cvars == <<constants_, cfield, graph, cresult>>
avars == <<modules, accessors, member_inputs, nlookups, aresult>>
srcvars == <<mode, src, before>>
ctorvars == <<version, env_>>
loopvars == <<pos, definitions, resolvers, heap, registry, calls>>
envvars == <<cur, chain>>
ivars == <<srcvars, ctorvars, loopvars, error, envvars>>
vars == <<pc, cvars, avars, ivars>>

(***************************************************************************)
(* Bounds of the model.                                                    *)
(***************************************************************************)
MaxFieldLen == 3
MaxPool == 3
MaxLookups == 3
MaxDefs == 2
MaxClasses == 2
MaxChain == 3

Range(s) == {s[i] : i \in DOMAIN s}

RECURSIVE SeqsUpTo(_, _)
SeqsUpTo(S, n) ==
  IF n = 0 THEN {<<>>}
  ELSE LET shorter == SeqsUpTo(S, n - 1)
       IN shorter \cup {Append(s, x) : s \in {t \in shorter : Len(t) = n - 1}, x \in S}

(***************************************************************************)
(* Characters and C strings.  A std::string is a sequence of one-character *)
(* strings; the terminating NUL is the position after the last one.        *)
(***************************************************************************)
DigitChars == <<"0", "1", "2", "3", "4", "5", "6", "7", "8", "9">>

IsDigit(ch) == \E d \in 1..10 : DigitChars[d] = ch

DigitVal(ch) == (CHOOSE d \in 1..10 : DigitChars[d] = ch) - 1

IsSpace(ch) == ch = " "

(***************************************************************************)
(* 64-bit values.  An int64_t is kept as sign and magnitude, the magnitude *)
(* as its decimal digits without leading zeros (<<0>> for zero), so that   *)
(* values around 2^63 keep their exact width.                              *)
(***************************************************************************)
LLONG_MAX_MAG == <<9,2,2,3,3,7,2,0,3,6,8,5,4,7,7,5,8,0,7>>

LLONG_MIN_MAG == <<9,2,2,3,3,7,2,0,3,6,8,5,4,7,7,5,8,0,8>>

RECURSIVE StripZeros(_)
StripZeros(ds) ==
  IF Len(ds) > 1 /\ ds[1] = 0 THEN StripZeros(Tail(ds)) ELSE ds

RECURSIVE LexLess(_, _)
LexLess(a, b) ==
  IF a = <<>> THEN FALSE
  ELSE IF a[1] # b[1] THEN a[1] < b[1]
  ELSE LexLess(Tail(a), Tail(b))

\* a < b for two magnitudes without leading zeros
MagLess(a, b) ==
  IF Len(a) # Len(b) THEN Len(a) < Len(b) ELSE LexLess(a, b)

RECURSIVE MagToNat(_)
MagToNat(ds) ==
  IF ds = <<>> THEN 0 ELSE 10 * MagToNat(SubSeq(ds, 1, Len(ds) - 1)) + ds[Len(ds)]

\* magnitude >= n, for a container size n below 10^9
MagGeqNat(mag, n) == IF Len(mag) > 9 THEN TRUE ELSE MagToNat(mag) >= n

Int64(neg, mag) == [neg |-> neg /\ mag # <<0>>, mag |-> mag]

(***************************************************************************)
(* std::strtoll(nptr, &end, 10) on the C string s: skips leading white     *)
(* space, takes an optional sign and then the longest run of digits.  With *)
(* no digit, nothing is converted: the value is 0 and end = nptr.  A value *)
(* outside int64_t is clamped to LLONG_MAX or LLONG_MIN.  `end` is the     *)
(* number of characters consumed, so *end is s[end + 1], or NUL when       *)
(* end = Len(s).                                                           *)
(***************************************************************************)
RECURSIVE CountSpaces(_, _)
CountSpaces(s, i) ==
  IF i <= Len(s) /\ IsSpace(s[i]) THEN 1 + CountSpaces(s, i + 1) ELSE 0

RECURSIVE CountDigits(_, _)
CountDigits(s, i) ==
  IF i <= Len(s) /\ IsDigit(s[i]) THEN 1 + CountDigits(s, i + 1) ELSE 0

strtoll(s) ==
  LET p      == CountSpaces(s, 1) + 1
      signed == p <= Len(s) /\ s[p] \in {"+", "-"}
      neg    == signed /\ s[p] = "-"
      d0     == IF signed THEN p + 1 ELSE p
      nd     == CountDigits(s, d0)
      mag    == StripZeros([k \in 1..nd |-> DigitVal(s[d0 + k - 1])])
      limit  == IF neg THEN LLONG_MIN_MAG ELSE LLONG_MAX_MAG
  IN IF nd = 0
     THEN [value |-> Int64(FALSE, <<0>>), end |-> 0]
     ELSE [value |-> Int64(neg, IF MagLess(limit, mag) THEN limit ELSE mag),
           end   |-> d0 + nd - 1]

(***************************************************************************)
(* ConstantTableValue::attr(loc, m, field).  `g` is m.graph() as the list  *)
(* of inserted constants.  strtoll reads from field.c_str() + 1; for an    *)
(* empty field that is one past the terminator, and `beyond` stands for    *)
(* whatever bytes lie there.  Returns the result and the graph.            *)
(***************************************************************************)
ConstantTableValue_attr(constants, g, field, beyond) ==
  LET field_s1 == IF Len(field) >= 1 THEN Tail(field) ELSE beyond
      conv     == strtoll(field_s1)
      offset   == conv.value
  IN IF Len(field) < 2 \/ conv.end # Len(field_s1)
     THEN [result |-> [kind |-> "error", what |-> "invalid constant specifier",
                       field |-> field],
           graph |-> g]
     ELSE IF offset.neg \/ MagGeqNat(offset.mag, Len(constants))
     THEN [result |-> [kind |-> "error", what |-> "constant index out of bounds",
                       offset |-> offset, size |-> Len(constants)],
           graph |-> g]
     ELSE [result |-> [kind |-> "SimpleValue", node |-> Len(g) + 1],
           graph |-> Append(g, constants[MagToNat(offset.mag) + 1])]

(***************************************************************************)
(* Inputs of the constant-table specification.                             *)
(***************************************************************************)
Alphabet == {"c", "x", "0", "1", "3", "-", "+", " "}

DigitsToChars(ds) == [k \in 1..Len(ds) |-> DigitChars[ds[k] + 1]]

\* fields whose digits reach the limits of int64_t
LongFields ==
  { <<"c">> \o DigitsToChars(LLONG_MAX_MAG),
    <<"c">> \o DigitsToChars(LLONG_MIN_MAG),
    <<"c", "0">> \o DigitsToChars(LLONG_MAX_MAG),
    <<"c", "1">> \o DigitsToChars(LLONG_MAX_MAG),
    <<"c", "-">> \o DigitsToChars(LLONG_MIN_MAG),
    <<"c", "-", "1">> \o DigitsToChars(LLONG_MIN_MAG),
    <<"c", "0", "0", "0", "0", "0", "0", "0", "0", "0", "0", "0", "2">> }

FieldInputs == SeqsUpTo(Alphabet, MaxFieldLen) \cup LongFields

\* the bytes after the terminator of an empty field
BeyondInputs == SeqsUpTo({"0", "x"}, 1)

\* a pool of S distinct tensors
PoolOf(S) == [k \in 1..S |-> [tensor |-> S + 1 - k]]

NoResult == [kind |-> "none"]

IIdle ==
  /\ mode = "none"
  /\ src = <<>>
  /\ before = <<>>
  /\ version = 0
  /\ env_ = <<>>
  /\ pos = 0
  /\ definitions = <<>>
  /\ resolvers = <<>>
  /\ heap = <<>>
  /\ registry = <<>>
  /\ calls = <<>>
  /\ error = NoResult
  /\ cur = NoResult
  /\ chain = <<>>

AIdle ==
  /\ modules = <<>>
  /\ accessors = {}
  /\ member_inputs = <<>>
  /\ nlookups = 0
  /\ aresult = NoResult

InitConst ==
  /\ pc = "call"
  /\ \E S \in 0..MaxPool : constants_ = PoolOf(S)
  /\ cfield \in FieldInputs
  /\ graph = <<>>
  /\ cresult = NoResult
  /\ AIdle
  /\ IIdle

\* the compiler resolves CONSTANTS.<cfield>
ConstantAttr ==
  /\ pc = "call"
  /\ \E beyond \in BeyondInputs :
       LET r == ConstantTableValue_attr(constants_, graph, cfield, beyond)
       IN /\ cresult' = r.result
          /\ graph' = r.graph
  /\ pc' = IF cresult'.kind = "error" THEN "thrown" ELSE "returned"
  /\ UNCHANGED <<constants_, cfield, avars, ivars>>

NextConst == ConstantAttr

SpecConst == InitConst /\ [][NextConst]_vars

(***************************************************************************)
(* What a field denotes, read off the text alone.                          *)
(***************************************************************************)
\* exactly 'c' followed by one or more decimal digits and nothing else
IsConstantSpecifier(field) ==
  /\ Len(field) >= 2
  /\ field[1] = "c"
  /\ \A k \in 2..Len(field) : IsDigit(field[k])

\* the integer i whose decimal digits follow the 'c'
IndexOf(field) == StripZeros([k \in 1..(Len(field) - 1) |-> DigitVal(field[k + 1])])

InPool(field) == Len(IndexOf(field)) <= 9 /\ MagToNat(IndexOf(field)) < Len(constants_)

\* C2: for a pool of size S and a field 'c' + digits of i, attr succeeds and
\* materializes exactly pool[i] iff 0 <= i < S; otherwise it fails with the
\* index-out-of-bounds error reporting i and S, and inserts nothing.
C2_IndexResolution ==
  (pc # "call" /\ IsConstantSpecifier(cfield)) =>
    IF InPool(cfield)
    THEN /\ cresult.kind = "SimpleValue"
         /\ graph = <<constants_[MagToNat(IndexOf(cfield)) + 1]>>
         /\ cresult.node = 1
    ELSE /\ cresult.kind = "error"
         /\ cresult.what = "constant index out of bounds"
         /\ cresult.offset = Int64(FALSE, IndexOf(cfield))
         /\ cresult.size = Len(constants_)
         /\ graph = <<>>

\* C3: a field that is not exactly 'c' + digits fails with the
\* invalid-constant-specifier error: never a pool entry, never out-of-bounds.
C3_MalformedRejected ==
  (pc # "call" /\ ~IsConstantSpecifier(cfield)) =>
    /\ cresult.kind = "error"
    /\ cresult.what = "invalid constant specifier"
    /\ graph = <<>>

(***************************************************************************)
(* Modules.  A module owns named submodules, parameter, buffer and         *)
(* attribute slots, and methods; a name may occur in several kinds.        *)
(***************************************************************************)
FieldNames == {"a", "b"}

RootId == 1

ChildId == 2

nullptr == [kind |-> "nullptr"]

Slot(mod, kind, name) == [module |-> mod, kind |-> kind, name |-> name]

\* Module::find_module / find_parameter / find_buffer / find_attribute /
\* find_method: the entry of that kind named `field`, or nullptr
find_module(mods, mod, field) ==
  IF field \in DOMAIN mods[mod].submodules
  THEN [kind |-> "Module", id |-> mods[mod].submodules[field]]
  ELSE nullptr

find_parameter(mods, mod, field) ==
  IF field \in mods[mod].parameters
  THEN [kind |-> "NamedIValue", slot |-> Slot(mod, "parameter", field)]
  ELSE nullptr

find_buffer(mods, mod, field) ==
  IF field \in mods[mod].buffers
  THEN [kind |-> "NamedIValue", slot |-> Slot(mod, "buffer", field)]
  ELSE nullptr

find_attribute(mods, mod, field) ==
  IF field \in mods[mod].attributes
  THEN [kind |-> "NamedIValue", slot |-> Slot(mod, "attribute", field),
        type |-> "AttrType"]
  ELSE nullptr

find_method(mods, mod, field) ==
  IF field \in mods[mod].methods
  THEN [kind |-> "Method", owner |-> mod, name |-> field]
  ELSE nullptr

IndexIn(seq, x) == CHOOSE i \in DOMAIN seq : seq[i] = x

\* Method::get_or_add_parameter(slot): the graph input already interned for
\* the slot, or a new one.  `m` is the method's list of interned slots.
get_or_add_parameter(m, slot) ==
  IF slot \in Range(m)
  THEN [m |-> m, value |-> IndexIn(m, slot)]
  ELSE [m |-> Append(m, slot), value |-> Len(m) + 1]

\* Method::get_or_add_attribute(type, slot): as above, for a typed slot
get_or_add_attribute(m, type, slot) ==
  IF slot \in Range(m)
  THEN [m |-> m, value |-> IndexIn(m, slot)]
  ELSE [m |-> Append(m, slot), value |-> Len(m) + 1]

SimpleValue(r) == [m |-> r.m, value |-> [kind |-> "SimpleValue", input |-> r.value]]

\* attr with the parameter lookup placed before the submodule lookup
ModuleAccessorValue_attr_parameterFirst(mods, self, m, field) ==
  IF find_parameter(mods, self, field) # nullptr
  THEN SimpleValue(get_or_add_parameter(m, find_parameter(mods, self, field).slot))
  ELSE IF find_module(mods, self, field) # nullptr
  THEN [m |-> m,
        value |-> [kind |-> "ModuleAccessorValue",
                   module |-> find_module(mods, self, field).id]]
  ELSE IF find_buffer(mods, self, field) # nullptr
  THEN SimpleValue(get_or_add_parameter(m, find_buffer(mods, self, field).slot))
  ELSE IF find_attribute(mods, self, field) # nullptr
  THEN SimpleValue(get_or_add_attribute(m, find_attribute(mods, self, field).type,
                                        find_attribute(mods, self, field).slot))
  ELSE IF find_method(mods, self, field) # nullptr
  THEN [m |-> m,
        value |-> [kind |-> "MethodValue", self |-> self,
                   method |-> find_method(mods, self, field)]]
  ELSE [m |-> m,
        value |-> [kind |-> "error", what |-> "unknown attr", field |-> field]]

\* attr adding a new graph input for a buffer on every lookup
ModuleAccessorValue_attr_bufferAdded(mods, self, m, field) ==
  IF find_module(mods, self, field) # nullptr
  THEN [m |-> m,
        value |-> [kind |-> "ModuleAccessorValue",
                   module |-> find_module(mods, self, field).id]]
  ELSE IF find_parameter(mods, self, field) # nullptr
  THEN SimpleValue(get_or_add_parameter(m, find_parameter(mods, self, field).slot))
  ELSE IF find_buffer(mods, self, field) # nullptr
  THEN SimpleValue([m |-> Append(m, find_buffer(mods, self, field).slot),
                    value |-> Len(m) + 1])
  ELSE IF find_attribute(mods, self, field) # nullptr
  THEN SimpleValue(get_or_add_attribute(m, find_attribute(mods, self, field).type,
                                        find_attribute(mods, self, field).slot))
  ELSE IF find_method(mods, self, field) # nullptr
  THEN [m |-> m,
        value |-> [kind |-> "MethodValue", self |-> self,
                   method |-> find_method(mods, self, field)]]
  ELSE [m |-> m,
        value |-> [kind |-> "error", what |-> "unknown attr", field |-> field]]

(***************************************************************************)
(* ModuleAccessorValue::attr(loc, m, field) on the accessor of module      *)
(* `self`.  Returns the sugared value (or the thrown error) and the        *)
(* method's interned slots.                                                *)
(***************************************************************************)
ModuleAccessorValue_attr(mods, self, m, field) ==
  IF find_module(mods, self, field) # nullptr
  THEN [m |-> m,
        value |-> [kind |-> "ModuleAccessorValue",
                   module |-> find_module(mods, self, field).id]]
  ELSE IF find_parameter(mods, self, field) # nullptr
  THEN SimpleValue(get_or_add_parameter(m, find_parameter(mods, self, field).slot))
  ELSE IF find_buffer(mods, self, field) # nullptr
  THEN SimpleValue(get_or_add_parameter(m, find_buffer(mods, self, field).slot))
  ELSE IF find_attribute(mods, self, field) # nullptr
  THEN SimpleValue(get_or_add_attribute(m, find_attribute(mods, self, field).type,
                                        find_attribute(mods, self, field).slot))
  ELSE IF find_method(mods, self, field) # nullptr
  THEN [m |-> m,
        value |-> [kind |-> "MethodValue", self |-> self,
                   method |-> find_method(mods, self, field)]]
  ELSE [m |-> m,
        value |-> [kind |-> "error", what |-> "unknown attr", field |-> field]]

(***************************************************************************)
(* The module-accessor specification: one method body is compiled against  *)
(* a root module with one child module, and the compiler resolves          *)
(* attribute chains starting from `self`.                                  *)
(***************************************************************************)
ModuleOf(subs, target, ps, bs, as, ms) ==
  [submodules |-> [n \in subs |-> target], parameters |-> ps, buffers |-> bs,
   attributes |-> as, methods |-> ms]

CIdle ==
  /\ constants_ = <<>>
  /\ cfield = <<>>
  /\ graph = <<>>
  /\ cresult = NoResult

InitAttr ==
  /\ pc = "compiling"
  /\ \E subs \in SUBSET FieldNames, ps \in SUBSET FieldNames,
        bs \in SUBSET FieldNames, as \in SUBSET FieldNames,
        ms \in SUBSET FieldNames, cps \in SUBSET FieldNames :
       modules = <<ModuleOf(subs, ChildId, ps, bs, as, ms),
                   ModuleOf({}, ChildId, cps, {}, {}, FieldNames \ cps)>>
  /\ accessors = {RootId}
  /\ member_inputs = <<>>
  /\ nlookups = 0
  /\ aresult = NoResult
  /\ CIdle
  /\ IIdle

\* the compiler resolves `<accessor>.<field>`
ModuleAttr ==
  /\ pc = "compiling"
  /\ nlookups < MaxLookups
  /\ \E self \in accessors, field \in FieldNames :
       LET r == ModuleAccessorValue_attr(modules, self, member_inputs, field)
       IN /\ aresult' = [self |-> self, field |-> field, value |-> r.value,
                         kind |-> "attr"]
          /\ member_inputs' = r.m
          /\ accessors' = IF r.value.kind = "ModuleAccessorValue"
                          THEN accessors \cup {r.value.module} ELSE accessors
          /\ pc' = IF r.value.kind = "error" THEN "thrown" ELSE "compiling"
  /\ nlookups' = nlookups + 1
  /\ UNCHANGED <<modules, cvars, ivars>>

NextAttr == ModuleAttr

SpecAttr == InitAttr /\ [][NextAttr]_vars

Looked == aresult.kind = "attr"

SelfModule == modules[aresult.self]

\* C1: attr(M, f) returns the first match in the order submodule > parameter
\* > buffer > attribute > method, also when several kinds share the name,
\* and fails with 'unknown attr' naming f iff f exists in none of the five.
C1_ResolutionOrder ==
  Looked =>
    LET M == SelfModule
        f == aresult.field
        v == aresult.value
        isSub  == f \in DOMAIN M.submodules
        isPar  == f \in M.parameters
        isBuf  == f \in M.buffers
        isAttr == f \in M.attributes
        isMeth == f \in M.methods
        slotOf(kind) == v.kind = "SimpleValue" /\ v.input \in DOMAIN member_inputs
                        /\ member_inputs[v.input] = Slot(aresult.self, kind, f)
    IN /\ isSub => v = [kind |-> "ModuleAccessorValue", module |-> M.submodules[f]]
       /\ (~isSub /\ isPar) => slotOf("parameter")
       /\ (~isSub /\ ~isPar /\ isBuf) => slotOf("buffer")
       /\ (~isSub /\ ~isPar /\ ~isBuf /\ isAttr) => slotOf("attribute")
       /\ (~isSub /\ ~isPar /\ ~isBuf /\ ~isAttr /\ isMeth) =>
            /\ v.kind = "MethodValue"
            /\ v.self = aresult.self
            /\ v.method = [kind |-> "Method", owner |-> aresult.self, name |-> f]
       /\ (v.kind = "error") <=> ~(isSub \/ isPar \/ isBuf \/ isAttr \/ isMeth)
       /\ (v.kind = "error") => (v.what = "unknown attr" /\ v.field = f)

\* C1 witness: a name shared by several kinds was resolved
C1_Witness ==
  /\ Looked
  /\ aresult.field \in SelfModule.parameters \cap SelfModule.buffers
                       \cap SelfModule.attributes \cap SelfModule.methods
  /\ aresult.field \notin DOMAIN SelfModule.submodules
  /\ aresult.value.kind = "SimpleValue"

NoDuplicates(seq) == \A i, j \in DOMAIN seq : seq[i] = seq[j] => i = j

\* C8: within one method body the method holds at most one interned entry
\* per module slot, and a lookup of a slot that is already interned adds no
\* entry and refers to the entry that is there.
C8_InterningIdempotent ==
  /\ []NoDuplicates(member_inputs)
  /\ [][\A i \in DOMAIN member_inputs :
          (aresult'.kind = "attr" /\ aresult'.value.kind = "SimpleValue"
             /\ member_inputs[i].module = aresult'.self
             /\ member_inputs[i].name = aresult'.field)
          => (member_inputs' = member_inputs /\ aresult'.value.input = i)]_vars

\* C8 witness: the same slot was resolved again after another one was
\* interned, and the method still holds one entry for each
C8_Witness ==
  /\ Looked
  /\ nlookups = 3
  /\ Len(member_inputs) = 2
  /\ aresult.value.kind = "SimpleValue"
  /\ aresult.value.input = 1

(***************************************************************************)
(* The version header.  The first line of a source unit is a sequence of   *)
(* tokens; `after` is the token that follows it (the first token of the    *)
(* body, or TK_EOF).  Lexer::expect(kind) throws a located error unless    *)
(* the current token has that kind, and otherwise returns it and advances. *)
(***************************************************************************)
Ident(text) == [kind |-> "TK_IDENT", text |-> text]

Number(text) == [kind |-> "TK_NUMBER", text |-> text]

EqTok == [kind |-> "=", text |-> <<"=">>]

MinusTok == [kind |-> "-", text |-> <<"-">>]

NewlineTok == [kind |-> "TK_NEWLINE", text |-> <<>>]

ErrorReport(loc, what) == [kind |-> "error", what |-> what, loc |-> loc]

\* Const::isIntegral(): the literal has no fraction and no exponent
Const_isIntegral(text) == \A k \in DOMAIN text : text[k] \notin {".", "e", "E"}

\* Const::asIntegral(): the literal's digits as an integer
Const_asIntegral(text) == MagToNat(strtoll(text).value.mag)

\* parseVersionNumber without the check of the assigned name
parseVersionNumber_anyName(toks, after) ==
  LET L_cur(i) == IF i <= Len(toks) THEN toks[i] ELSE after
      version_text == L_cur(3).text
  IN IF L_cur(1).kind # "TK_IDENT"
     THEN ErrorReport(1, "expected TK_IDENT")
     ELSE IF L_cur(2).kind # "="
     THEN ErrorReport(2, "expected =")
     ELSE IF L_cur(3).kind # "TK_NUMBER"
     THEN ErrorReport(3, "expected TK_NUMBER")
     ELSE IF L_cur(4).kind # "TK_NEWLINE"
     THEN ErrorReport(4, "expected TK_NEWLINE")
     ELSE IF ~Const_isIntegral(version_text)
     THEN ErrorReport(1, "expected an integral version")
     ELSE [kind |-> "version", value |-> Const_asIntegral(version_text)]

parseVersionNumber(toks, after) ==
  LET L_cur(i) == IF i <= Len(toks) THEN toks[i] ELSE after
      name == L_cur(1).text
      version_text == L_cur(3).text
  IN IF L_cur(1).kind # "TK_IDENT"
     THEN ErrorReport(1, "expected TK_IDENT")
     ELSE IF L_cur(2).kind # "="
     THEN ErrorReport(2, "expected =")
     ELSE IF L_cur(3).kind # "TK_NUMBER"
     THEN ErrorReport(3, "expected TK_NUMBER")
     ELSE IF L_cur(4).kind # "TK_NEWLINE"
     THEN ErrorReport(4, "expected TK_NEWLINE")
     ELSE IF name # "op_version_set"
     THEN ErrorReport(1, "expected an assignment to op_version_set")
     ELSE IF ~Const_isIntegral(version_text)
     THEN ErrorReport(1, "expected an integral version")
     ELSE [kind |-> "version", value |-> Const_asIntegral(version_text)]

(***************************************************************************)
(* Sugared values of the environment.                                      *)
(***************************************************************************)
\* BuiltinModule(name, version): an operator namespace; `path` is the dotted
\* name as its segments
BuiltinModule(path, v) == [kind |-> "BuiltinModule", path |-> path, version |-> v]

OpsValue(v) == [kind |-> "OpsValue", version_ |-> v]

\* OpsValue::attr building the namespace without its own version
OpsValue_attr_unversioned(ops, field) == BuiltinModule(<<field>>, 0)

\* OpsValue::attr(loc, m, field)
OpsValue_attr(ops, field) == BuiltinModule(<<field>>, ops.version_)

\* BuiltinModule::attr(loc, m, field): the namespace one segment deeper
BuiltinModule_attr(bm, field) == BuiltinModule(Append(bm.path, field), bm.version)

ConstantTableValue(constants) == [kind |-> "ConstantTableValue", constants_ |-> constants]

ConstantValue(value) == [kind |-> "ConstantValue", value_ |-> value]

\* SourceImporter::SourceImporter, the initializer of env_
SourceImporter_env(v, constant_table) ==
  [name \in {"torch", "ops", "CONSTANTS", "fork", "annotate", "inf", "nan"} |->
     CASE name = "torch"     -> BuiltinModule(<<"aten">>, v)
       [] name = "ops"       -> OpsValue(v)
       [] name = "CONSTANTS" -> ConstantTableValue(constant_table)
       [] name = "fork"      -> [kind |-> "ForkValue"]
       [] name = "annotate"  -> [kind |-> "AnnotateValue"]
       [] name = "inf"       -> ConstantValue("infinity")
       [] name = "nan"       -> ConstantValue("quiet_NaN")]

\* SourceImporter::resolver_(name, m, loc)
resolver_(env, name) == IF name \in DOMAIN env THEN env[name] ELSE nullptr

\* the std::function stored in `resolvers`: it refers to this importer
ThisResolver == [kind |-> "Resolver", importer |-> "this"]

(***************************************************************************)
(* The parser and the compiler, as the drivers use them.  A unit of the    *)
(* body is a method definition or a class definition; `parses` tells       *)
(* whether its text is grammatical, `resolves` whether every identifier of *)
(* its body resolves when it is compiled.                                  *)
(***************************************************************************)
Def(name, parses, resolves) ==
  [kind |-> "Def", name |-> name, parses |-> parses, resolves |-> resolves]

ClassDef(name, defs) == [kind |-> "ClassDef", name |-> name, defs |-> defs]

\* Parser::parseFunction(is_method = true) on the unit at the cursor
parseFunction(unit) ==
  IF unit.kind = "Def" /\ unit.parses
  THEN unit
  ELSE ErrorReport(unit.name, "parse error")

\* Parser::parseClass() on the unit at the cursor
parseClass(unit) ==
  IF unit.kind = "ClassDef" /\ \A k \in DOMAIN unit.defs : unit.defs[k].parses
  THEN unit
  ELSE ErrorReport(unit.name, "parse error")

\* defineMethodsInModule(mod, definitions, resolvers, self): compiles the
\* definitions in order and attaches each to mod; a definition that does not
\* resolve throws, and what was attached before it stays attached
RECURSIVE defineMethodsInModule(_, _, _, _, _)
defineMethodsInModule(h, mod, defs, rs, self) ==
  IF defs = <<>>
  THEN [heap |-> h, error |-> NoResult]
  ELSE IF ~defs[1].resolves
  THEN [heap |-> h, error |-> ErrorReport(defs[1].name, "resolution error")]
  ELSE defineMethodsInModule(
         [h EXCEPT ![mod] = Append(@, [name |-> defs[1].name, self |-> self,
                                      resolver |-> rs[1]])],
         mod, Tail(defs), Tail(rs), self)

\* std::make_shared<Module>(): a module that no live module is
NewModule(h) == Len(h) + 1

\* ClassType::create(name, mod): the class type; it keeps mod alive
ClassType_create(name, mod) == [kind |-> "ClassType", name |-> name, module |-> mod]

ModuleAccessorValue(mod) == [kind |-> "ModuleAccessorValue", module |-> mod]

(***************************************************************************)
(* The drivers.  The state of a running call is the record L of its        *)
(* locals and of what it has changed; `units` is the body of the source    *)
(* and `mod` the target module of import_methods.                          *)
(***************************************************************************)
Locals ==
  [pc |-> pc, pos |-> pos, definitions |-> definitions, resolvers |-> resolvers,
   heap |-> heap, registry |-> registry, calls |-> calls, error |-> error]

Becomes(L) ==
  /\ pc' = L.pc
  /\ pos' = L.pos
  /\ definitions' = L.definitions
  /\ resolvers' = L.resolvers
  /\ heap' = L.heap
  /\ registry' = L.registry
  /\ calls' = L.calls
  /\ error' = L.error

Throw(L, e) == [L EXCEPT !.pc = "thrown", !.error = e]

Call(mod, defs, rs, self, at) ==
  [mod |-> mod, definitions |-> defs, resolvers |-> rs, self |-> self, pos |-> at]

\* the loop of import_methods putting each definition in front of the
\* earlier ones
import_methods_loop_front(L, units) ==
  LET def == parseFunction(units[L.pos + 1])
  IN IF def.kind = "error"
     THEN Throw(L, def)
     ELSE [L EXCEPT !.pos = L.pos + 1,
                    !.definitions = <<def>> \o L.definitions,
                    !.resolvers = Append(L.resolvers, ThisResolver)]

\* the loop of import_methods compiling each definition as soon as it is
\* parsed, the way import_libs treats a class
import_methods_loop_eager(L, units) ==
  LET def == parseFunction(units[L.pos + 1])
      self == ModuleAccessorValue(1)
      r == defineMethodsInModule(L.heap, 1, <<def>>, <<ThisResolver>>, self)
  IN IF def.kind = "error"
     THEN Throw(L, def)
     ELSE [L EXCEPT !.pos = L.pos + 1,
                    !.definitions = Append(L.definitions, def),
                    !.resolvers = Append(L.resolvers, ThisResolver),
                    !.heap = r.heap,
                    !.calls = Append(L.calls, Call(1, <<def>>, <<ThisResolver>>,
                                                   self, L.pos + 1))]

\* import_methods, one iteration of the while loop
import_methods_loop(L, units) ==
  LET def == parseFunction(units[L.pos + 1])
  IN IF def.kind = "error"
     THEN Throw(L, def)
     ELSE [L EXCEPT !.pos = L.pos + 1,
                    !.definitions = Append(L.definitions, def),
                    !.resolvers = Append(L.resolvers, ThisResolver)]

\* import_methods, after the loop
import_methods_define(L, mod) ==
  LET self == ModuleAccessorValue(mod)
      r == defineMethodsInModule(L.heap, mod, L.definitions, L.resolvers, self)
      M == [L EXCEPT !.heap = r.heap,
                     !.calls = Append(L.calls, Call(mod, L.definitions, L.resolvers,
                                                    self, L.pos))]
  IN IF r.error.kind = "error" THEN Throw(M, r.error) ELSE [M EXCEPT !.pc = "returned"]

\* the loop of import_libs skipping a class that fails to parse
import_libs_loop_skipping(L, units) ==
  LET class_def == parseClass(units[L.pos + 1])
  IN IF class_def.kind = "error"
     THEN [L EXCEPT !.pos = L.pos + 1]
     ELSE [L EXCEPT !.pc = "libs_define",
                    !.pos = L.pos + 1,
                    !.definitions = class_def.defs,
                    !.resolvers = [k \in DOMAIN class_def.defs |-> ThisResolver]]

\* import_libs, the first half of an iteration: parse the class and collect
\* its methods
import_libs_loop(L, units) ==
  LET class_def == parseClass(units[L.pos + 1])
  IN IF class_def.kind = "error"
     THEN Throw(L, class_def)
     ELSE [L EXCEPT !.pc = "libs_define",
                    !.pos = L.pos + 1,
                    !.definitions = class_def.defs,
                    !.resolvers = [k \in DOMAIN class_def.defs |-> ThisResolver]]

\* import_libs with the module allocated once, before the loop
import_libs_define_shared(L, class_def) ==
  LET first == L.registry = <<>>
      mod == IF first THEN NewModule(L.heap) ELSE L.registry[1].module
      self == ClassType_create(class_def.name, mod)
      r == defineMethodsInModule(IF first THEN Append(L.heap, <<>>) ELSE L.heap,
                                 mod, L.definitions, L.resolvers, self)
      M == [L EXCEPT !.heap = r.heap,
                     !.registry = Append(L.registry, self),
                     !.calls = Append(L.calls, Call(mod, L.definitions, L.resolvers,
                                                    self, L.pos))]
  IN IF r.error.kind = "error" THEN Throw(M, r.error) ELSE [M EXCEPT !.pc = "libs_loop"]

\* import_libs, the second half: a fresh module, the class type as self, and
\* the class's methods compiled against it
import_libs_define(L, class_def) ==
  LET mod == NewModule(L.heap)
      self == ClassType_create(class_def.name, mod)
      r == defineMethodsInModule(Append(L.heap, <<>>), mod, L.definitions,
                                 L.resolvers, self)
      M == [L EXCEPT !.heap = r.heap,
                     !.registry = Append(L.registry, self),
                     !.calls = Append(L.calls, Call(mod, L.definitions, L.resolvers,
                                                    self, L.pos))]
  IN IF r.error.kind = "error" THEN Throw(M, r.error) ELSE [M EXCEPT !.pc = "libs_loop"]

(***************************************************************************)
(* Inputs of the import specification.                                     *)
(***************************************************************************)
VersionTexts == {<<"0">>, <<"7">>, <<"1", "2">>}

\* a first line: each of the four tokens is right, wrong or absent
Headers ==
  { t1 \o t2 \o t3 \o t4 :
      t1 \in {<<Ident("op_version_set")>>, <<Ident("version")>>, <<>>},
      t2 \in {<<EqTok>>, <<>>},
      t3 \in {<<Number(v)>> : v \in VersionTexts}
             \cup {<<Number(<<"1", ".", "5">>)>>, <<Ident("seven")>>,
                   <<MinusTok, Number(<<"7">>)>>, <<>>},
      t4 \in {<<NewlineTok>>, <<>>} }

GoodHeaders ==
  { <<Ident("op_version_set"), EqTok, Number(v), NewlineTok>> : v \in VersionTexts }

MethodNames == {"f", "g", "h"}

ClassNames == {"A", "B", "C"}

DistinctNames(seq) == \A i, j \in DOMAIN seq : seq[i].name = seq[j].name => i = j

\* bodies of at most n method definitions with distinct names
DefSeqs(n) ==
  { ds \in SeqsUpTo({Def(nm, p, r) : nm \in MethodNames,
                       p \in BOOLEAN, r \in BOOLEAN}, n) :
      /\ DistinctNames(ds)
      /\ \A k \in DOMAIN ds : ~ds[k].parses => ds[k].resolves }

\* class bodies: no method, one method, or the two methods f and g
ClassBodies == DefSeqs(1) \cup {<<Def("f", TRUE, TRUE), Def("g", TRUE, TRUE)>>}

ClassSeqs ==
  { cs \in SeqsUpTo({ClassDef(nm, ds) : nm \in ClassNames, ds \in ClassBodies},
                    MaxClasses) : DistinctNames(cs) }

FirstToken(units) ==
  IF units = <<>> THEN [kind |-> "TK_EOF", text |-> <<>>]
  ELSE IF units[1].kind = "Def" THEN [kind |-> "TK_DEF", text |-> <<>>]
  ELSE [kind |-> "TK_CLASS_DEF", text |-> <<>>]

\* the module that exists before the call, with the methods it already has
TargetId == 1

OldMethod == [name |-> "old", self |-> ModuleAccessorValue(TargetId),
              resolver |-> [kind |-> "Resolver", importer |-> "earlier"]]

EIdle ==
  /\ cur = NoResult
  /\ chain = <<>>

InitCall ==
  /\ pc = "construct"
  /\ version = 0
  /\ env_ = <<>>
  /\ pos = 0
  /\ definitions = <<>>
  /\ resolvers = <<>>
  /\ heap \in {<<<<>>>>, <<<<OldMethod>>>>}
  /\ before = heap
  /\ registry = <<>>
  /\ calls = <<>>
  /\ error = NoResult
  /\ constants_ = PoolOf(1)
  /\ cfield = <<>>
  /\ graph = <<>>
  /\ cresult = NoResult
  /\ AIdle
  /\ EIdle

\* bodies tried behind a malformed first line
ShortBodies ==
  { <<>>, <<Def("f", TRUE, TRUE)>>, <<ClassDef("A", <<Def("f", TRUE, TRUE)>>)>> }

InitImport ==
  /\ mode \in {"import_methods", "import_libs"}
  /\ \/ \E h \in GoodHeaders :
          \/ /\ mode = "import_methods"
             /\ \E ds \in DefSeqs(MaxDefs) : src = [header |-> h, units |-> ds]
          \/ /\ mode = "import_libs"
             /\ \E cs \in ClassSeqs : src = [header |-> h, units |-> cs]
     \/ \E h \in Headers \ GoodHeaders, b \in ShortBodies :
          src = [header |-> h, units |-> b]
  /\ InitCall

\* SourceImporter importer(src, constant_table)
Construct ==
  /\ pc = "construct"
  /\ LET v == parseVersionNumber(src.header, FirstToken(src.units))
     IN IF v.kind = "error"
        THEN /\ pc' = "thrown"
             /\ error' = v
             /\ UNCHANGED ctorvars
        ELSE /\ pc' = CASE mode = "import_methods" -> "methods_loop"
                        [] mode = "import_libs" -> "libs_loop"
                        [] OTHER -> "resolve"
             /\ version' = v.value
             /\ env_' = SourceImporter_env(v.value, constants_)
             /\ error' = error
  /\ UNCHANGED <<cvars, avars, srcvars, loopvars, envvars>>

AtEOF == pos = Len(src.units)

MethodsParse ==
  /\ pc = "methods_loop"
  /\ ~AtEOF
  /\ Becomes(import_methods_loop(Locals, src.units))
  /\ UNCHANGED <<cvars, avars, srcvars, ctorvars, envvars>>

MethodsDefine ==
  /\ pc = "methods_loop"
  /\ AtEOF
  /\ Becomes(import_methods_define(Locals, TargetId))
  /\ UNCHANGED <<cvars, avars, srcvars, ctorvars, envvars>>

LibsParse ==
  /\ pc = "libs_loop"
  /\ ~AtEOF
  /\ Becomes(import_libs_loop(Locals, src.units))
  /\ UNCHANGED <<cvars, avars, srcvars, ctorvars, envvars>>

LibsDefine ==
  /\ pc = "libs_define"
  /\ Becomes(import_libs_define(Locals, src.units[pos]))
  /\ UNCHANGED <<cvars, avars, srcvars, ctorvars, envvars>>

LibsReturn ==
  /\ pc = "libs_loop"
  /\ AtEOF
  /\ pc' = "returned"
  /\ UNCHANGED <<cvars, avars, ivars>>

NextImport ==
  \/ Construct
  \/ MethodsParse
  \/ MethodsDefine
  \/ LibsParse
  \/ LibsDefine
  \/ LibsReturn

SpecImport == InitImport /\ [][NextImport]_vars

(***************************************************************************)
(* The environment specification: an importer is constructed and the       *)
(* compiler resolves top-level names and attribute chains on the operator  *)
(* namespaces through resolver_.                                           *)
(***************************************************************************)
TopLevelNames == {"torch", "ops", "CONSTANTS", "inf", "undefined_name"}

Segments == {"some", "deep", "path"}

InitEnv ==
  /\ mode = "resolve"
  /\ \E h \in Headers : src = [header |-> h, units |-> <<>>]
  /\ InitCall

\* the compiler asks resolver_ for a free identifier
ResolveName ==
  /\ pc = "resolve"
  /\ \E name \in TopLevelNames :
       /\ cur' = resolver_(env_, name)
       /\ chain' = <<name>>
  /\ UNCHANGED <<pc, cvars, avars, srcvars, ctorvars, loopvars, error>>

\* the compiler selects an attribute on an operator namespace
NamespaceAttr ==
  /\ pc = "resolve"
  /\ cur.kind \in {"OpsValue", "BuiltinModule"}
  /\ Len(chain) <= MaxChain
  /\ \E field \in Segments :
       /\ cur' = IF cur.kind = "OpsValue" THEN OpsValue_attr(cur, field)
                 ELSE BuiltinModule_attr(cur, field)
       /\ chain' = Append(chain, field)
  /\ UNCHANGED <<pc, cvars, avars, srcvars, ctorvars, loopvars, error>>

NextEnv ==
  \/ Construct
  \/ ResolveName
  \/ NamespaceAttr

SpecEnv == InitEnv /\ [][NextEnv]_vars

(***************************************************************************)
(* Properties of the importer.                                             *)
(***************************************************************************)
RECURSIVE DecimalValue(_)
DecimalValue(text) ==
  IF text = <<>> THEN 0
  ELSE 10 * DecimalValue(SubSeq(text, 1, Len(text) - 1)) + DigitVal(text[Len(text)])

\* the first line is `op_version_set = N` and a line terminator
IsVersionHeader(h) ==
  /\ Len(h) = 4
  /\ h[1] = Ident("op_version_set")
  /\ h[2].kind = "="
  /\ h[3].kind = "TK_NUMBER"
  /\ h[3].text # <<>>
  /\ \A k \in DOMAIN h[3].text : IsDigit(h[3].text[k])
  /\ h[4].kind = "TK_NEWLINE"

HeaderVersion == DecimalValue(src.header[3].text)

IsPrefix(a, b) == Len(a) <= Len(b) /\ SubSeq(b, 1, Len(a)) = a

AllDefsFine(defs) == \A k \in DOMAIN defs : defs[k].parses /\ defs[k].resolves

WellFormedMethods ==
  /\ IsVersionHeader(src.header)
  /\ \A k \in DOMAIN src.units : src.units[k].kind = "Def"
  /\ AllDefsFine(src.units)

WellFormedClasses ==
  /\ IsVersionHeader(src.header)
  /\ \A k \in DOMAIN src.units :
       src.units[k].kind = "ClassDef" /\ AllDefsFine(src.units[k].defs)

Compiled(defs, self) ==
  [k \in DOMAIN defs |-> [name |-> defs[k].name, self |-> self, resolver |-> ThisResolver]]

\* C4: a first line `op_version_set = N` makes parseVersionNumber return
\* exactly N; every other first line makes the construction fail with a
\* located error before any definition is parsed or any method attached.
C4_VersionHeader ==
  pc # "construct" =>
    IF IsVersionHeader(src.header)
    THEN /\ version = HeaderVersion
         /\ error.kind = "error" => error.what \in {"parse error", "resolution error"}
    ELSE /\ pc = "thrown"
         /\ error.kind = "error"
         /\ error.loc \in 1..4
         /\ pos = 0
         /\ definitions = <<>>
         /\ calls = <<>>
         /\ heap = before

\* C4 witness: version 12 was parsed from the header
C4_Witness ==
  /\ pc = "methods_loop"
  /\ src.header[3].text = <<"1", "2">>
  /\ version = 12

\* C5: for a well-formed source with n method definitions import_methods
\* hands the compiler exactly those n definitions in source order, each with
\* this unit's resolver, the target being the given module and self a
\* ModuleAccessor over it; exactly those methods are attached, to that
\* module and to no other.
C5_MethodsAttached ==
  (mode = "import_methods" /\ WellFormedMethods /\ pc = "returned") =>
    /\ calls = << [mod |-> TargetId,
                   definitions |-> src.units,
                   resolvers |-> [k \in DOMAIN src.units |-> ThisResolver],
                   self |-> ModuleAccessorValue(TargetId),
                   pos |-> Len(src.units)] >>
    /\ DOMAIN heap = DOMAIN before
    /\ heap[TargetId] =
         before[TargetId] \o Compiled(src.units, ModuleAccessorValue(TargetId))

\* C5 witness: two methods were attached next to an older one
C5_Witness ==
  /\ mode = "import_methods"
  /\ pc = "returned"
  /\ Len(src.units) = 2
  /\ Len(before[TargetId]) = 1
  /\ Len(heap[TargetId]) = 3

\* C6: for a well-formed source with k classes import_libs allocates exactly
\* k fresh modules, pairwise distinct and distinct from every older module,
\* one per class in source order; the module of a class holds exactly the
\* methods of that class, with self the class type of that name over it.
C6_FreshModulePerClass ==
  (mode = "import_libs" /\ WellFormedClasses /\ pc = "returned") =>
    /\ Len(registry) = Len(src.units)
    /\ Len(heap) = Len(before) + Len(src.units)
    /\ \A m \in DOMAIN before : heap[m] = before[m]
    /\ \A i, j \in DOMAIN registry :
         registry[i].module = registry[j].module => i = j
    /\ \A i \in DOMAIN registry :
         /\ registry[i].module \in DOMAIN heap \ DOMAIN before
         /\ registry[i] = ClassType_create(src.units[i].name, registry[i].module)
         /\ heap[registry[i].module] = Compiled(src.units[i].defs, registry[i])
         /\ calls[i].mod = registry[i].module
         /\ calls[i].self = registry[i]

\* C6 witness: two classes with one method each were imported
C6_Witness ==
  /\ mode = "import_libs"
  /\ pc = "returned"
  /\ Len(src.units) = 2
  /\ Len(registry) = 2
  /\ \A i \in 1..2 : Len(src.units[i].defs) = 1 /\ Len(heap[registry[i].module]) = 1
  /\ heap[registry[1].module][1].name # heap[registry[2].module][1].name

SourceHasFault ==
  \/ ~IsVersionHeader(src.header)
  \/ \E k \in DOMAIN src.units :
       \/ src.units[k].kind = "Def" /\ ~(src.units[k].parses /\ src.units[k].resolves)
       \/ src.units[k].kind = "ClassDef" /\ ~AllDefsFine(src.units[k].defs)
       \/ src.units[k].kind = "Def" /\ mode = "import_libs"
       \/ src.units[k].kind = "ClassDef" /\ mode = "import_methods"

\* C7: an error aborts the call at once: it reaches the caller (a call on a
\* faulty source never returns normally), nothing is parsed or compiled after
\* it, and every method attached before it stays attached unchanged.
C7_ErrorAborts ==
  /\ [](pc = "thrown" =>
          /\ error.kind = "error"
          /\ \A m \in DOMAIN before : IsPrefix(before[m], heap[m]))
  /\ [](pc = "returned" => ~SourceHasFault /\ error = NoResult)
  /\ [][pc # "thrown" /\ pc # "returned"]_vars
  /\ [][\A m \in DOMAIN heap : m \in DOMAIN heap' /\ IsPrefix(heap[m], heap'[m])]_vars

\* C7 witness: import_libs failed in its second class and the method of the
\* first class is still attached
C7_Witness ==
  /\ mode = "import_libs"
  /\ pc = "thrown"
  /\ pos = 2
  /\ Len(registry) >= 1
  /\ Len(heap[registry[1].module]) = 1
  /\ Len(before[TargetId]) = 1
  /\ heap[TargetId] = before[TargetId]

\* C10: import_methods hands nothing to the compiler before the parser is at
\* the end of input, and then everything in one batch, so a parse error in
\* any definition leaves the target module as it was; import_libs has
\* compiled class i when it parses class i+1.
C10_BatchVersusInterleaved ==
  /\ [][(mode = "import_methods" /\ (calls' # calls \/ heap' # heap)) =>
          /\ pos = Len(src.units)
          /\ calls = <<>>
          /\ Len(calls') = 1
          /\ calls'[1].definitions = src.units]_vars
  /\ []((mode = "import_methods" /\ pc = "thrown" /\ error.what = "parse error")
          => (heap = before /\ calls = <<>>))
  /\ [][(mode = "import_libs" /\ pos' # pos) => (Len(calls) = pos /\ pos' = pos + 1)]_vars

\* C10 witness: the second definition failed to parse after the first one was
\* parsed, and the target module has only the method it had
C10_Witness ==
  /\ mode = "import_methods"
  /\ pc = "thrown"
  /\ error.what = "parse error"
  /\ pos = 1
  /\ Len(definitions) = 1
  /\ heap = before
  /\ Len(before[TargetId]) = 1

\* C9: every operator namespace reached from `torch` or `ops` carries the
\* version of this unit's header; each attribute access resolves without
\* error and lengthens the path by the accessed segment, version unchanged.
C9_VersionCarried ==
  (pc = "resolve" /\ chain # <<>> /\ chain[1] \in {"torch", "ops"}) =>
    /\ IsVersionHeader(src.header)
    /\ IF chain = <<"ops">>
       THEN cur = OpsValue(HeaderVersion)
       ELSE /\ cur.kind = "BuiltinModule"
            /\ cur.version = HeaderVersion
            /\ cur.path = (IF chain[1] = "torch" THEN <<"aten">> ELSE <<>>) \o Tail(chain)

\* C9 witness: torch.some.deep.path was resolved under version 12
C9_Witness ==
  /\ chain = <<"torch", "some", "deep", "path">>
  /\ cur.kind = "BuiltinModule"
  /\ cur.version = 12

\* a second C9 case: a chain through `ops`
C9_OpsWitness ==
  /\ chain = <<"ops", "deep", "path">>
  /\ cur = BuiltinModule(<<"deep", "path">>, 7)

====
